---- MODULE Spec2Model ----
(***************************************************************************)
(* react-user-media: the request lifecycles of the useMedia and            *)
(* useMediaDevices hooks, the kind-specific device hooks, the external     *)
(* store hooks useTrackMuteState and useMediaTracks, and useMediaRecorder. *)
(*                                                                         *)
(* A hook instance is modelled by its React state cells (the useState      *)
(* values), the promises the browser handed out, and the JavaScript        *)
(* microtask queue on which the promise reactions run.  Every callback of  *)
(* the source (request, onRequestSuccess, onRequestError, finalizeRequest, *)
(* onDeviceChange) is one atomic action: JavaScript runs a callback to     *)
(* completion.  The state a hook returns is a pure function of its cells   *)
(* (MediaState, DeviceState), so a property of the returned state is       *)
(* stated over the cells.                                                  *)
(*                                                                         *)
(* useMediaDevices' request closes over isLoading (useCallback deps        *)
(* [isLoading, filter]); closureIsLoading is the value the current         *)
(* callback holds, and Render is the re-render that refreshes it.          *)
(* useMedia's request closes over type alone, which SetType re-renders.    *)
(*                                                                         *)
(* calls, deviceCalls and the fields call and solo of a request record are *)
(* observations (what a spy on request() would log); no action reads them. *)
(*                                                                         *)
(* useTrackMuteState and useMediaTracks are useSyncExternalStore bridges:  *)
(* the model keeps the browser object (the track's muted flag, the         *)
(* stream's track list), the listeners, and what getSnapshot returned;     *)
(* an array's identity is the number getTracks() created it under.         *)
(* useMediaRecorder keeps its recorder in a ref, its cells, and the        *)
(* MediaRecorder objects it created.                                       *)
(*                                                                         *)
(* mounted names the hooks the component calls.  SpecMedia, SpecDevices,   *)
(* SpecKindDevices, SpecMute and SpecTracks run a component that calls one *)
(* hook, the variables of the others staying at rest; SpecApp runs a       *)
(* component that calls two of them.                                       *)
(***************************************************************************)
EXTENDS Integers, Sequences, FiniteSets, TLC

\* ------------------------------------------------------------ bounds ----
\* request() invocations made on the useMedia instance in one run
MaxCalls == 2
\* request() invocations made on the useMediaDevices instance in one run
MaxDeviceCalls == 2
\* devices in one enumerateDevices result
MaxDevices == 2
\* request() invocations made on a kind-specific device hook in one run
MaxKindDeviceCalls == 1
\* getTracks() invocations (arrays created) in one run
MaxArrays == 3
\* request() and getTracks() invocations made on each hook, and tracks in a
\* stream, of a component that calls two hooks
MaxAppCalls == 1
\* startRecording() invocations (MediaRecorder objects created) in one run
MaxRecordings == 1
\* Blobs the recorders deliver in one run
MaxSegments == 2

\* ------------------------------------------------------------ values ----
Undefined == "undefined"
Null == "null"

MediaTypes == {"user", "display"}
\* the constraints / options object handed to request(); "none" is request()
Args == {"none", "a1"}
\* the MediaStream objects the browser can resolve a capture promise with
Streams == {"s1", "s2"}
\* the reasons the browser can reject a promise with
Reasons == {"e1"}

ErrNoGetUserMedia == "getUserMedia is not available. Are you using a modern browser?"
ErrNoGetDisplayMedia == "getDisplayMedia is not available. Are you in a secure context?"

VARIABLES
    mounted,     \* the hooks the component calls
    type,        \* useMedia: the hook's argument in the current render
    hasApi,      \* useMedia: which of navigator.mediaDevices.getUserMedia/getDisplayMedia exist
    media,       \* useMedia: useState cell
    error,       \* useMedia: useState cell
    isLoading,   \* useMedia: useState cell
    reqs,        \* useMedia: the capture API invocations and their promises
    microtasks,  \* useMedia: the microtask queue (ids of requests whose next reaction is queued)
    calls,       \* useMedia: the request() invocations, in order
    hook,                \* which exported device hook the component calls
    options,             \* the options object the caller passes to that hook
    filter,              \* useMediaDevices: the destructured filter, as the set of devices it accepts
    deviceChangedEvent,  \* useMediaDevices: the destructured deviceChangedEvent
    hasEnumerateDevices, \* useMediaDevices: navigator.mediaDevices.enumerateDevices exists
    devices,             \* useMediaDevices: useState cell
    devicesError,        \* useMediaDevices: useState cell (error)
    devicesIsLoading,    \* useMediaDevices: useState cell (isLoading)
    closureIsLoading,    \* useMediaDevices: the isLoading the current request callback closed over
    enums,               \* useMediaDevices: the enumerateDevices invocations and their promises
    deviceMicrotasks,    \* useMediaDevices: the microtask queue
    deviceCalls,         \* useMediaDevices: the request() invocations, in order, by origin
    muteTrack,           \* useTrackMuteState: the track argument of the current render
    trackMuted,          \* MediaStreamTrack.muted of every track
    muteListeners,       \* the (track, event) pairs the hook's callback listens to
    muteValue,           \* useTrackMuteState: the value the last render returned
    muteDirty,           \* useTrackMuteState: a re-render is scheduled
    muteEffectPending,   \* useTrackMuteState: the last render's effects have not run
    muteLastEvent,       \* the last mute/unmute event a track dispatched
    tracksMedia,         \* useMediaTracks: the media argument of the current render
    streamTracks,        \* MediaStream.getTracks() of every stream, as track ids
    trackCache,          \* useMediaTracks: trackCache.current (an array: its identity and items)
    arrays,              \* how many arrays getTracks() has created
    snapshot,            \* useMediaTracks: the array the last getSnapshot() returned
    tracksChanged,       \* the observed track list changed since the last getSnapshot()
    snapshotRepeated,    \* the last getSnapshot() followed another with no change between
    recorderRef,         \* useMediaRecorder: recorderRef.current (none, or a recorder)
    isRecorderDirty,     \* useMediaRecorder: useState cell
    recorder,            \* useMediaRecorder: the useMemo value the helper hooks observe
    recorders,           \* the MediaRecorder objects startRecording created
    recorderError,       \* useMediaRecorderError: useState cell
    startTime,           \* useMediaRecorder: useState cell
    endTime,             \* useMediaRecorder: useState cell
    segments             \* useMediaRecorder: useState cell

mediaVars == <<type, hasApi, media, error, isLoading, reqs, microtasks, calls>>

deviceVars ==
    <<hook, options, filter, deviceChangedEvent, hasEnumerateDevices, devices, devicesError,
      devicesIsLoading, closureIsLoading, enums, deviceMicrotasks, deviceCalls>>

muteVars ==
    <<muteTrack, trackMuted, muteListeners, muteValue, muteDirty,
      muteEffectPending, muteLastEvent>>

tracksVars ==
    <<tracksMedia, streamTracks, trackCache, arrays, snapshot, tracksChanged,
      snapshotRepeated>>

recorderVars ==
    <<recorderRef, isRecorderDirty, recorder, recorders, recorderError,
      startTime, endTime, segments>>

\* the variables of the hooks other than useMedia, useMediaDevices, ...
besidesMedia == <<mounted, deviceVars, muteVars, tracksVars, recorderVars>>
besidesDevices == <<mounted, mediaVars, muteVars, tracksVars, recorderVars>>
besidesMute == <<mounted, mediaVars, deviceVars, tracksVars, recorderVars>>
besidesTracks == <<mounted, mediaVars, deviceVars, muteVars, recorderVars>>
besidesRecorder == <<mounted, mediaVars, deviceVars, muteVars, tracksVars>>

vars == <<mounted, mediaVars, deviceVars, muteVars, tracksVars, recorderVars>>

\* the exported hooks that keep state
AppHooks ==
    {"useMedia", "useMediaDevices", "useMediaRecorder", "useMediaTracks",
     "useTrackMuteState"}

\* ------------------------------------------------------ useMedia --------

\* const isError = useMemo(() => error !== null, [error])
IsError == error # Null

\* const isReady = useMemo(() => typeof media !== "undefined", [media])
IsReady == media # Undefined

\* the object useMedia returns (without the request function)
MediaState ==
    [isError |-> IsError, isLoading |-> isLoading, isReady |-> IsReady,
     error |-> error, media |-> media]

\* faulty variant: the availability checks are skipped
ApiAvailableUnchecked(t) == TRUE

\* the availability checks at the top of requestUserMedia
ApiAvailable(t) == hasApi[t]

\* the Error each failed availability check builds
NotAvailableError(t) ==
    IF t = "user" THEN ErrNoGetUserMedia ELSE ErrNoGetDisplayMedia

\* faulty variant: the switch always takes the "user" case
CaptureApiAlwaysUser(t) == "getUserMedia"

\* switch (type): the capture API a request of type t invokes
CaptureApi(t) ==
    IF t = "user" THEN "getUserMedia" ELSE "getDisplayMedia"

\* faulty variant: the request forgets setIsLoading(true)
RequestStartNoLoading == [isLoading |-> FALSE, media |-> Undefined, error |-> Null]

\* setIsLoading(true); setMedia(undefined); setError(null)
RequestStart == [isLoading |-> TRUE, media |-> Undefined, error |-> Null]

\* function onRequestSuccess(userMedia) { setMedia(userMedia); setError(null) }
OnRequestSuccess(userMedia) == [media |-> userMedia, error |-> Null]

\* faulty variant: the rejection reason is swallowed
OnRequestErrorSwallowed(e) == [media |-> Undefined, error |-> Null]

\* function onRequestError(error) { setError(error); setMedia(undefined) }
OnRequestError(e) == [media |-> Undefined, error |-> e]

\* faulty variant: the chain never resets isLoading
FinalizeRequestStuck == TRUE

\* function finalizeRequest() { setIsLoading(false) }
FinalizeRequest == FALSE

\* the requests whose promise chain has not run to its end
InFlight == {r \in DOMAIN reqs : reqs[r].phase # "done"}

MediaInit ==
    /\ type \in MediaTypes
    /\ hasApi \in [MediaTypes -> BOOLEAN]
    /\ media = Undefined
    /\ error = Null
    /\ isLoading = FALSE
    /\ reqs = <<>>
    /\ microtasks = <<>>
    /\ calls = <<>>

\* the component renders again with another type argument
SetType(t) ==
    /\ t # type
    /\ type' = t
    /\ UNCHANGED <<hasApi, media, error, isLoading, reqs, microtasks, calls>>
    /\ UNCHANGED besidesMedia

\* request(...args)
RequestUserMedia(args) ==
    /\ Len(calls) < MaxCalls
    /\ calls' = Append(calls, [type |-> type, args |-> args])
    /\ IF ~ApiAvailable(type)
       THEN /\ error' = NotAvailableError(type)
            /\ UNCHANGED <<media, isLoading, reqs>>
       ELSE /\ isLoading' = RequestStart.isLoading
            /\ media' = RequestStart.media
            /\ error' = RequestStart.error
            /\ reqs' = Append(reqs,
                   [api |-> CaptureApi(type), args |-> args,
                    phase |-> "pending", value |-> Null,
                    call |-> Len(calls) + 1, solo |-> InFlight = {}])
    /\ UNCHANGED <<type, hasApi, microtasks>>
    /\ UNCHANGED besidesMedia

\* the browser fulfils the promise of request r with a stream
Fulfil(r, s) ==
    /\ r \in DOMAIN reqs
    /\ reqs[r].phase = "pending"
    /\ reqs' = [reqs EXCEPT ![r].phase = "fulfilled", ![r].value = s]
    /\ microtasks' = Append(microtasks, r)
    /\ UNCHANGED <<type, hasApi, media, error, isLoading, calls>>
    /\ UNCHANGED besidesMedia

\* the browser rejects the promise of request r
Reject(r, e) ==
    /\ r \in DOMAIN reqs
    /\ reqs[r].phase = "pending"
    /\ reqs' = [reqs EXCEPT ![r].phase = "rejected", ![r].value = e]
    /\ microtasks' = Append(microtasks, r)
    /\ UNCHANGED <<type, hasApi, media, error, isLoading, calls>>
    /\ UNCHANGED besidesMedia

\* the first .then(onRequestSuccess, onRequestError) reaction of request r
\* runs; its result promise resolves, which queues finalizeRequest
RunReaction ==
    /\ microtasks # <<>>
    /\ LET r == Head(microtasks)
           upd == IF reqs[r].phase = "fulfilled"
                  THEN OnRequestSuccess(reqs[r].value)
                  ELSE OnRequestError(reqs[r].value)
       IN  /\ reqs[r].phase \in {"fulfilled", "rejected"}
           /\ media' = upd.media
           /\ error' = upd.error
           /\ reqs' = [reqs EXCEPT ![r].phase = "finalizing"]
           /\ microtasks' = Append(Tail(microtasks), r)
    /\ UNCHANGED <<type, hasApi, isLoading, calls>>
    /\ UNCHANGED besidesMedia

\* the second .then(finalizeRequest) reaction of request r runs
RunFinalize ==
    /\ microtasks # <<>>
    /\ LET r == Head(microtasks)
       IN  /\ reqs[r].phase = "finalizing"
           /\ isLoading' = FinalizeRequest
           /\ reqs' = [reqs EXCEPT ![r].phase = "done"]
           /\ microtasks' = Tail(microtasks)
    /\ UNCHANGED <<type, hasApi, media, error, calls>>
    /\ UNCHANGED besidesMedia

MediaNext ==
    \/ \E t \in MediaTypes : SetType(t)
    \/ \E a \in Args : RequestUserMedia(a)
    \/ \E r \in 1..MaxCalls, s \in Streams : Fulfil(r, s)
    \/ \E r \in 1..MaxCalls, e \in Reasons : Reject(r, e)
    \/ RunReaction
    \/ RunFinalize

\* ------------------------------------------------- useMediaDevices ------

\* the MediaDeviceInfo objects the browser knows
Devices == {"mic", "speaker", "cam"}

\* what enumerateDevices can resolve with: lists of distinct devices
DeviceLists ==
    {l \in UNION {[1..n -> Devices] : n \in 0..MaxDevices} :
        \A i, j \in DOMAIN l : i # j => l[i] # l[j]}

\* MediaDeviceInfo.kind of each device, as its sequence of characters
KindOf(d) ==
    CASE d = "mic"     -> <<"a","u","d","i","o","i","n","p","u","t">>
      [] d = "speaker" -> <<"a","u","d","i","o","o","u","t","p","u","t">>
      [] d = "cam"     -> <<"v","i","d","e","o","i","n","p","u","t">>

\* String.prototype.startsWith
StartsWith(s, prefix) ==
    /\ Len(prefix) <= Len(s)
    /\ SubSeq(s, 1, Len(prefix)) = prefix

\* an optional property of an options object: absent, or given with a value
None == <<>>
Some(x) == <<x>>

\* the filters a caller passes
FilterChoices == {Devices, {"mic", "cam"}}

\* the options objects a caller passes: every property is optional
\* (useMediaDevices() is the object with neither)
OptionChoices ==
    [filter : {None} \cup {Some(f) : f \in FilterChoices \ {Devices}},
     deviceChangedEvent : {None, Some(FALSE)}]

\* const defaultMediaDeviceOptions = { filter: () => true, deviceChangedEvent: true };
\* const { filter, deviceChangedEvent } = { ...defaultMediaDeviceOptions, ...options }
MergeDefaults(opts) ==
    [filter |-> IF opts.filter = None THEN Devices ELSE opts.filter[1],
     deviceChangedEvent |->
        IF opts.deviceChangedEvent = None THEN TRUE ELSE opts.deviceChangedEvent[1]]

\* the exported hooks that wrap useMediaDevices with a kind test
KindHooks ==
    {"useMediaAudioDevices", "useMediaAudioInputDevices",
     "useMediaAudioOutputDevices", "useMediaVideoDevices"}

\* the kind test of each wrapping hook
KindMatches(h, d) ==
    CASE h = "useMediaAudioDevices" ->
            StartsWith(KindOf(d), <<"a","u","d","i","o">>)
      [] h = "useMediaAudioInputDevices" ->
            KindOf(d) = <<"a","u","d","i","o","i","n","p","u","t">>
      [] h = "useMediaAudioOutputDevices" ->
            KindOf(d) = <<"a","u","d","i","o","o","u","t","p","u","t">>
      [] h = "useMediaVideoDevices" ->
            StartsWith(KindOf(d), <<"v","i","d","e","o">>)

\* (mutant) kind test || caller's filter
KindFilterOr(h, opts) ==
    {d \in Devices :
        KindMatches(h, d) \/ (opts.filter # None /\ d \in opts.filter[1])}

\* filter(device) { return <kind test> && (!options?.filter || options.filter(device)) }
KindFilter(h, opts) ==
    {d \in Devices :
        KindMatches(h, d) /\ (opts.filter = None \/ d \in opts.filter[1])}

\* the options useMediaDevices is called with: the caller's own, or from a
\* wrapping hook { ...options, filter(device) {...} }
HookOptions(h, opts) ==
    IF h \in KindHooks
    THEN [opts EXCEPT !.filter = Some(KindFilter(h, opts))]
    ELSE opts

ErrNoEnumerateDevices == "enumerateDevices is not available. Are you in a secure context?"

\* const isError = useMemo(() => error !== null, [error])
IsDevicesError == devicesError # Null

\* const isReady = useMemo(() => typeof devices !== "undefined", [devices])
IsDevicesReady == devices # Undefined

\* the object useMediaDevices returns (without the request function)
DeviceState ==
    [isError |-> IsDevicesError, isLoading |-> devicesIsLoading,
     isReady |-> IsDevicesReady, error |-> devicesError, devices |-> devices]

\* if (isLoading) return: isLoading is the value the callback closed over
\* in the render that created it (useCallback(..., [isLoading, filter]))
RequestPending == closureIsLoading

\* setIsLoading(true); setDevices(undefined); setError(null)
DevicesRequestStart == [isLoading |-> TRUE, devices |-> Undefined, error |-> Null]

\* (mutant) setDevices(devices): the filter is not applied
FilterDevicesUnfiltered(list) == SelectSeq(list, LAMBDA d : TRUE)

\* devices.filter(filter)
FilterDevices(list) == SelectSeq(list, LAMBDA d : d \in filter)

\* function onRequestSuccess(devices) { setDevices(devices.filter(filter)); setError(null) }
OnDevicesSuccess(list) == [devices |-> FilterDevices(list), error |-> Null]

\* function onRequestError(error) { setError(error); setDevices(undefined) }
OnDevicesError(e) == [devices |-> Undefined, error |-> e]

\* the enumerations whose promise reaction has not run
EnumsInFlight == {r \in DOMAIN enums : enums[r].phase # "done"}

\* the first render of a component that calls one of the hooks in hooks
DevicesInitOf(hooks) ==
    /\ hook \in hooks
    /\ options \in OptionChoices
    /\ filter = MergeDefaults(HookOptions(hook, options)).filter
    /\ deviceChangedEvent = MergeDefaults(HookOptions(hook, options)).deviceChangedEvent
    /\ hasEnumerateDevices \in BOOLEAN
    /\ devices = Undefined
    /\ devicesError = Null
    /\ devicesIsLoading = FALSE
    /\ closureIsLoading = FALSE
    /\ enums = <<>>
    /\ deviceMicrotasks = <<>>
    /\ deviceCalls = <<>>

\* how many request() invocations a run makes on the hook in use
DeviceCallBound ==
    IF hook \in KindHooks THEN MaxKindDeviceCalls ELSE MaxDeviceCalls

\* function requestMediaDevices(), invoked by the caller ("request") or by
\* the devicechange listener ("devicechange")
RequestMediaDevices(origin) ==
    /\ Len(deviceCalls) < DeviceCallBound
    /\ deviceCalls' = Append(deviceCalls, origin)
    /\ IF RequestPending
       THEN UNCHANGED <<devices, devicesError, devicesIsLoading, enums>>
       ELSE IF ~hasEnumerateDevices
       THEN /\ devicesError' = ErrNoEnumerateDevices
            /\ UNCHANGED <<devices, devicesIsLoading, enums>>
       ELSE /\ devicesIsLoading' = DevicesRequestStart.isLoading
            /\ devices' = DevicesRequestStart.devices
            /\ devicesError' = DevicesRequestStart.error
            /\ enums' = Append(enums,
                   [phase |-> "pending", outcome |-> "none", value |-> Null,
                    call |-> Len(deviceCalls) + 1, solo |-> EnumsInFlight = {}])
    /\ UNCHANGED <<hook, options, filter, deviceChangedEvent, hasEnumerateDevices,
                   closureIsLoading, deviceMicrotasks>>
    /\ UNCHANGED besidesDevices

\* the caller invokes the returned request()
Request == RequestMediaDevices("request")

\* a devicechange event reaches the listener the effect registered
OnDeviceChange ==
    /\ deviceChangedEvent
    /\ RequestMediaDevices("devicechange")

\* React renders the component again: useCallback builds a new request that
\* closes over the current isLoading, and the effect re-registers the
\* devicechange listener with it
Render ==
    /\ closureIsLoading # devicesIsLoading
    /\ closureIsLoading' = devicesIsLoading
    /\ UNCHANGED <<hook, options, filter, deviceChangedEvent, hasEnumerateDevices, devices,
                   devicesError, devicesIsLoading, enums, deviceMicrotasks,
                   deviceCalls>>
    /\ UNCHANGED besidesDevices

\* the browser fulfils the promise of enumeration r with a device list
EnumFulfil(r, list) ==
    /\ r \in DOMAIN enums
    /\ enums[r].phase = "pending"
    /\ enums' = [enums EXCEPT ![r].phase = "settled",
                               ![r].outcome = "fulfilled", ![r].value = list]
    /\ deviceMicrotasks' = Append(deviceMicrotasks, r)
    /\ UNCHANGED <<hook, options, filter, deviceChangedEvent, hasEnumerateDevices, devices,
                   devicesError, devicesIsLoading, closureIsLoading, deviceCalls>>
    /\ UNCHANGED besidesDevices

\* the browser rejects the promise of enumeration r
EnumReject(r, e) ==
    /\ r \in DOMAIN enums
    /\ enums[r].phase = "pending"
    /\ enums' = [enums EXCEPT ![r].phase = "settled",
                               ![r].outcome = "rejected", ![r].value = e]
    /\ deviceMicrotasks' = Append(deviceMicrotasks, r)
    /\ UNCHANGED <<hook, options, filter, deviceChangedEvent, hasEnumerateDevices, devices,
                   devicesError, devicesIsLoading, closureIsLoading, deviceCalls>>
    /\ UNCHANGED besidesDevices

\* (mutant) error and setError are one module-level cell that useMedia and
\* useMediaDevices share
RunDevicesReactionSharedError ==
    /\ deviceMicrotasks # <<>>
    /\ LET r == Head(deviceMicrotasks)
           upd == IF enums[r].outcome = "fulfilled"
                  THEN OnDevicesSuccess(enums[r].value)
                  ELSE OnDevicesError(enums[r].value)
       IN  /\ devices' = upd.devices
           /\ devicesError' = upd.error
           /\ error' = upd.error
           /\ enums' = [enums EXCEPT ![r].phase = "done", ![r].value = Null]
           /\ deviceMicrotasks' = Tail(deviceMicrotasks)
    /\ UNCHANGED <<hook, options, filter, deviceChangedEvent, hasEnumerateDevices,
                   devicesIsLoading, closureIsLoading, deviceCalls>>
    /\ UNCHANGED <<mounted, type, hasApi, media, isLoading, reqs, microtasks,
                   calls, muteVars, tracksVars, recorderVars>>

\* the .then(onRequestSuccess, onRequestError) reaction of an enumeration
\* runs; nothing is chained after it, and nothing reads the promise's value
\* again (the record drops it)
RunDevicesReaction ==
    /\ deviceMicrotasks # <<>>
    /\ LET r == Head(deviceMicrotasks)
           upd == IF enums[r].outcome = "fulfilled"
                  THEN OnDevicesSuccess(enums[r].value)
                  ELSE OnDevicesError(enums[r].value)
       IN  /\ devices' = upd.devices
           /\ devicesError' = upd.error
           /\ enums' = [enums EXCEPT ![r].phase = "done", ![r].value = Null]
           /\ deviceMicrotasks' = Tail(deviceMicrotasks)
    /\ UNCHANGED <<hook, options, filter, deviceChangedEvent, hasEnumerateDevices,
                   devicesIsLoading, closureIsLoading, deviceCalls>>
    /\ UNCHANGED besidesDevices

DevicesNext ==
    \/ Request
    \/ OnDeviceChange
    \/ Render
    \/ \E r \in 1..MaxDeviceCalls, l \in DeviceLists : EnumFulfil(r, l)
    \/ \E r \in 1..MaxDeviceCalls, e \in Reasons : EnumReject(r, e)
    \/ RunDevicesReaction

\* ----------------------------------------------- useTrackMuteState -----

\* the MediaStreamTrack objects the component can pass
Tracks == {"t1", "t2"}

\* function getSnapshot(): track.muted ? "muted" : "unmuted"
MuteSnapshot(t, muted) == IF muted[t] THEN "muted" ELSE "unmuted"

\* (mutant) subscribe forgets the unmute listener
MuteSubscribeMuteOnly(t) == {<<t, "mute">>}

\* function subscribe(callback): the listeners it adds to the track
MuteSubscribe(t) == {<<t, "mute">>, <<t, "unmute">>}

\* the callback useSyncExternalStore passed to subscribe runs: it schedules
\* a re-render when getSnapshot() no longer gives the rendered value
MuteStoreChanged(muted) == MuteSnapshot(muteTrack, muted) # muteValue

\* the first render: nothing is subscribed until its effects run
MuteInit ==
    /\ muteTrack \in Tracks
    /\ trackMuted \in [Tracks -> BOOLEAN]
    /\ muteListeners = {}
    /\ muteValue = MuteSnapshot(muteTrack, trackMuted)
    /\ muteDirty = FALSE
    /\ muteEffectPending = TRUE
    /\ muteLastEvent = None

\* the browser mutes (ev = "mute") or unmutes (ev = "unmute") track t and
\* dispatches the event to the listeners on t
TrackEvent(t, ev) ==
    /\ trackMuted[t] = (ev = "unmute")
    /\ trackMuted' = [trackMuted EXCEPT ![t] = (ev = "mute")]
    /\ muteLastEvent' = Some(<<t, ev>>)
    /\ muteDirty' = IF <<t, ev>> \in muteListeners
                    THEN muteDirty \/ MuteStoreChanged(trackMuted')
                    ELSE muteDirty
    /\ UNCHANGED <<muteTrack, muteListeners, muteValue, muteEffectPending>>
    /\ UNCHANGED besidesMute

\* the component renders the hook with another track: subscribe and
\* getSnapshot are rebuilt (useCallback deps [track]), the render reads the
\* new getSnapshot, and the subscription moves when the effects run
SetMuteTrack(t) ==
    /\ t # muteTrack
    /\ muteTrack' = t
    /\ muteValue' = MuteSnapshot(t, trackMuted)
    /\ muteDirty' = FALSE
    /\ muteEffectPending' = TRUE
    /\ UNCHANGED <<trackMuted, muteListeners, muteLastEvent>>
    /\ UNCHANGED besidesMute

\* the scheduled re-render runs and reads getSnapshot()
MuteRerender ==
    /\ muteDirty
    /\ muteValue' = MuteSnapshot(muteTrack, trackMuted)
    /\ muteDirty' = FALSE
    /\ UNCHANGED <<muteTrack, trackMuted, muteListeners, muteEffectPending,
                   muteLastEvent>>
    /\ UNCHANGED besidesMute

\* the effects of the last render run: unsubscribe() of the previous
\* subscribe, subscribe(callback) of the current one, and the check for a
\* store change since the render
MuteEffect ==
    /\ muteEffectPending
    /\ muteListeners' = MuteSubscribe(muteTrack)
    /\ muteEffectPending' = FALSE
    /\ muteDirty' = (muteDirty \/ MuteStoreChanged(trackMuted))
    /\ UNCHANGED <<muteTrack, trackMuted, muteValue, muteLastEvent>>
    /\ UNCHANGED besidesMute

MuteNext ==
    \/ \E t \in Tracks, ev \in {"mute", "unmute"} : TrackEvent(t, ev)
    \/ \E t \in Tracks : SetMuteTrack(t)
    \/ MuteRerender
    \/ MuteEffect

\* -------------------------------------------------- useMediaTracks -----

\* the track lists a stream can have: distinct tracks, by id
TrackLists ==
    {l \in UNION {[1..n -> Tracks] : n \in 0..Cardinality(Tracks)} :
        \A i, j \in DOMAIN l : i # j => l[i] # l[j]}

\* const trackCache = useRef<MediaStreamTrack[]>([])
EmptyCache == [ref |-> 0, items |-> <<>>]

\* const latestTracks = media.getTracks(): always a new array
LatestTracks == [ref |-> arrays + 1, items |-> streamTracks[tracksMedia]]

\* (mutant) trackCache.current = latestTracks on every call
CacheAfterAlways(cache, latest) == latest

\* trackCache.current after getSnapshot's test: replaced by latestTracks
\* when the lengths differ and some latest id is not among the cached ids
CacheAfter(cache, latest) ==
    IF Len(latest.items) # Len(cache.items)
    THEN IF ~(\A i \in DOMAIN latest.items :
                 \E j \in DOMAIN cache.items : cache.items[j] = latest.items[i])
         THEN latest
         ELSE cache
    ELSE cache

TracksInit ==
    /\ tracksMedia \in Streams \cup {Undefined}
    /\ streamTracks \in [Streams -> TrackLists]
    /\ trackCache = EmptyCache
    /\ arrays = 0
    /\ snapshot = None
    /\ tracksChanged = FALSE
    /\ snapshotRepeated = FALSE

\* function getSnapshot(), called by useSyncExternalStore
GetSnapshot ==
    /\ IF tracksMedia # Undefined
       THEN /\ arrays < MaxArrays
            /\ arrays' = arrays + 1
            /\ trackCache' = CacheAfter(trackCache, LatestTracks)
       ELSE UNCHANGED <<arrays, trackCache>>
    /\ snapshot' = Some(trackCache'.ref)
    /\ snapshotRepeated' = (snapshot # None /\ ~tracksChanged)
    /\ tracksChanged' = FALSE
    /\ UNCHANGED <<tracksMedia, streamTracks>>
    /\ UNCHANGED besidesTracks

\* track t is added to stream s
AddTrack(s, t) ==
    /\ \A i \in DOMAIN streamTracks[s] : streamTracks[s][i] # t
    /\ streamTracks' = [streamTracks EXCEPT ![s] = Append(@, t)]
    /\ tracksChanged' = (tracksChanged \/ s = tracksMedia)
    /\ UNCHANGED <<tracksMedia, trackCache, arrays, snapshot, snapshotRepeated>>
    /\ UNCHANGED besidesTracks

\* track t is removed from stream s
RemoveTrack(s, t) ==
    /\ \E i \in DOMAIN streamTracks[s] : streamTracks[s][i] = t
    /\ streamTracks' =
          [streamTracks EXCEPT ![s] = SelectSeq(@, LAMBDA x : x # t)]
    /\ tracksChanged' = (tracksChanged \/ s = tracksMedia)
    /\ UNCHANGED <<tracksMedia, trackCache, arrays, snapshot, snapshotRepeated>>
    /\ UNCHANGED besidesTracks

\* the component renders the hook with another media: getSnapshot is
\* rebuilt (useCallback deps [media]), the ref stays
SetTracksMedia(m) ==
    /\ m # tracksMedia
    /\ tracksMedia' = m
    /\ tracksChanged' = TRUE
    /\ UNCHANGED <<streamTracks, trackCache, arrays, snapshot, snapshotRepeated>>
    /\ UNCHANGED besidesTracks

TracksNext ==
    \/ GetSnapshot
    \/ \E s \in Streams, t \in Tracks : AddTrack(s, t)
    \/ \E s \in Streams, t \in Tracks : RemoveTrack(s, t)
    \/ \E m \in Streams \cup {Undefined} : SetTracksMedia(m)

\* ------------------------------------------------ useMediaRecorder -----

\* performance.now(): a timestamp (its value is not modelled)
Now == "now"

ErrRecorder == "MediaRecorder encountered an unknown error."

\* useMediaRecorderState.getSnapshot: recorder?.state ?? "unavailable"
RecorderStateSnapshot ==
    IF recorder = None THEN "unavailable" ELSE recorders[recorder[1]].state

\* const isRecording = useMemo(() => recorderState === "recording", ...)
IsRecording == RecorderStateSnapshot = "recording"

\* const isError = useMemo(() => error !== null, [error])
IsRecorderError == recorderError # Null

\* segments.length > 0 && recorderState === "inactive" && endTime !== null
IsFinalized ==
    /\ Len(segments) > 0
    /\ RecorderStateSnapshot = "inactive"
    /\ endTime # Null

\* the object useMediaRecorder returns (without its two functions)
RecorderState ==
    [isError |-> IsRecorderError, isRecording |-> IsRecording,
     isFinalized |-> IsFinalized, error |-> recorderError,
     segments |-> segments, startTime |-> startTime, endTime |-> endTime]

RecorderInit ==
    /\ recorderRef = None
    /\ isRecorderDirty = FALSE
    /\ recorder = None
    /\ recorders = <<>>
    /\ recorderError = Null
    /\ startTime = Null
    /\ endTime = Null
    /\ segments = <<>>

\* function startRecordingMedia(media, options): a new MediaRecorder with
\* its dataavailable listener, started at once
StartRecording ==
    /\ Len(recorders) < MaxRecordings
    /\ recorders' = Append(recorders,
           [state |-> "recording", stopping |-> FALSE, onStop |-> 0])
    /\ segments' = <<>>
    /\ endTime' = Null
    /\ startTime' = Now
    /\ recorderRef' = Some(Len(recorders) + 1)
    /\ isRecorderDirty' = TRUE
    /\ UNCHANGED <<recorder, recorderError>>
    /\ UNCHANGED besidesRecorder

\* the render after setIsRecorderDirty(true): useMemo reads recorderRef.current
\* and resets the flag; the helper hooks move their listeners to the recorder
RecorderRender ==
    /\ isRecorderDirty
    /\ recorder' = recorderRef
    /\ isRecorderDirty' = FALSE
    /\ UNCHANGED <<recorderRef, recorders, recorderError, startTime, endTime,
                   segments>>
    /\ UNCHANGED besidesRecorder

\* function stopRecordingMedia(): a once-listener for "stop" on the current
\* recorder, then recorder.stop(), which inactivates a recording recorder
\* and queues its last dataavailable and its stop event (and throws on an
\* inactive one, after the listener was added)
StopRecording ==
    /\ recorderRef # None
    /\ LET r == recorderRef[1]
       IN  recorders' =
             [recorders EXCEPT
                ![r].onStop = 1,
                ![r].stopping = (recorders[r].state = "recording" \/ @),
                ![r].state = "inactive"]
    /\ recorders' # recorders
    /\ UNCHANGED <<recorderRef, isRecorderDirty, recorder, recorderError,
                   startTime, endTime, segments>>
    /\ UNCHANGED besidesRecorder

\* a timeslice of recorder r ends: onDataAvailable appends the Blob
DataAvailable(r) ==
    /\ r \in DOMAIN recorders
    /\ recorders[r].state = "recording"
    /\ Len(segments) < MaxSegments
    /\ segments' = Append(segments, r)
    /\ UNCHANGED <<recorderRef, isRecorderDirty, recorder, recorders,
                   recorderError, startTime, endTime>>
    /\ UNCHANGED besidesRecorder

\* the task recorder.stop() queued runs: the last dataavailable, then the
\* stop event, which onStopCompleted (if added) answers with setEndTime
RecorderStopped(r) ==
    /\ r \in DOMAIN recorders
    /\ recorders[r].stopping
    /\ Len(segments) < MaxSegments
    /\ segments' = Append(segments, r)
    /\ endTime' = IF recorders[r].onStop > 0 THEN Now ELSE endTime
    /\ recorders' = [recorders EXCEPT ![r].stopping = FALSE, ![r].onStop = 0]
    /\ UNCHANGED <<recorderRef, isRecorderDirty, recorder, recorderError,
                   startTime>>
    /\ UNCHANGED besidesRecorder

\* recorder r fires "error": onError runs if useMediaRecorderError observes r
RecorderErrorEvent(r) ==
    /\ r \in DOMAIN recorders
    /\ recorders[r].state = "recording"
    /\ recorder = Some(r)
    /\ recorderError = Null
    /\ recorderError' = ErrRecorder
    /\ UNCHANGED <<recorderRef, isRecorderDirty, recorder, recorders,
                   startTime, endTime, segments>>
    /\ UNCHANGED besidesRecorder

RecorderNext ==
    \/ StartRecording
    \/ RecorderRender
    \/ StopRecording
    \/ \E r \in 1..MaxRecordings : DataAvailable(r)
    \/ \E r \in 1..MaxRecordings : RecorderStopped(r)
    \/ \E r \in 1..MaxRecordings : RecorderErrorEvent(r)

\* ------------------------------------------------- specifications ------

\* useMediaDevices and its wrappers are not mounted
NoDevicesHook ==
    /\ hook = "useMediaDevices"
    /\ options = [filter |-> <<>>, deviceChangedEvent |-> <<>>]
    /\ filter = {}
    /\ deviceChangedEvent = FALSE
    /\ hasEnumerateDevices = FALSE
    /\ devices = Undefined
    /\ devicesError = Null
    /\ devicesIsLoading = FALSE
    /\ closureIsLoading = FALSE
    /\ enums = <<>>
    /\ deviceMicrotasks = <<>>
    /\ deviceCalls = <<>>

\* useMedia is not mounted
NoMediaHook ==
    /\ type = "user"
    /\ hasApi = [t \in MediaTypes |-> FALSE]
    /\ media = Undefined
    /\ error = Null
    /\ isLoading = FALSE
    /\ reqs = <<>>
    /\ microtasks = <<>>
    /\ calls = <<>>

\* useTrackMuteState is not mounted
NoMuteHook ==
    /\ muteTrack = "t1"
    /\ trackMuted = [t \in Tracks |-> FALSE]
    /\ muteListeners = {}
    /\ muteValue = "unmuted"
    /\ muteDirty = FALSE
    /\ muteEffectPending = FALSE
    /\ muteLastEvent = None

\* useMediaTracks is not mounted
NoTracksHook ==
    /\ tracksMedia = Undefined
    /\ streamTracks = [s \in Streams |-> <<>>]
    /\ trackCache = EmptyCache
    /\ arrays = 0
    /\ snapshot = None
    /\ tracksChanged = FALSE
    /\ snapshotRepeated = FALSE

\* useMediaRecorder is not mounted
NoRecorderHook == RecorderInit

\* a component that calls useMedia alone
MediaOnlyInit ==
    /\ mounted = {"useMedia"}
    /\ MediaInit /\ NoDevicesHook /\ NoMuteHook /\ NoTracksHook /\ NoRecorderHook

SpecMedia == MediaOnlyInit /\ [][MediaNext]_vars

\* the event loop drains the microtask queue
SpecMediaFair ==
    SpecMedia /\ WF_vars(RunReaction) /\ WF_vars(RunFinalize)

\* a component that calls useMediaDevices alone
DevicesOnlyInit ==
    /\ mounted = {"useMediaDevices"}
    /\ DevicesInitOf({"useMediaDevices"})
    /\ NoMediaHook /\ NoMuteHook /\ NoTracksHook /\ NoRecorderHook

SpecDevices == DevicesOnlyInit /\ [][DevicesNext]_vars

\* a component that calls one of the kind-specific device hooks alone
KindDevicesOnlyInit ==
    /\ mounted = {"useMediaDevices"}
    /\ DevicesInitOf(KindHooks)
    /\ NoMediaHook /\ NoMuteHook /\ NoTracksHook /\ NoRecorderHook

SpecKindDevices == KindDevicesOnlyInit /\ [][DevicesNext]_vars

\* a component that calls useTrackMuteState alone
MuteOnlyInit ==
    /\ mounted = {"useTrackMuteState"}
    /\ MuteInit /\ NoMediaHook /\ NoDevicesHook /\ NoTracksHook /\ NoRecorderHook

SpecMute == MuteOnlyInit /\ [][MuteNext]_vars

\* React runs the re-renders it scheduled and the effects of every render
SpecMuteFair ==
    SpecMute /\ WF_vars(MuteRerender) /\ WF_vars(MuteEffect)

\* a component that calls useMediaTracks alone
TracksOnlyInit ==
    /\ mounted = {"useMediaTracks"}
    /\ TracksInit /\ NoMediaHook /\ NoDevicesHook /\ NoMuteHook /\ NoRecorderHook

SpecTracks == TracksOnlyInit /\ [][TracksNext]_vars

\* a component that calls two of the hooks, in a browser that has every
\* API, with no options, an unmuted track and a stream without tracks
AppInit ==
    /\ mounted \in {p \in SUBSET AppHooks : Cardinality(p) = 2}
    /\ IF "useMedia" \in mounted
       THEN MediaInit /\ type = "user" /\ hasApi = [t \in MediaTypes |-> TRUE]
       ELSE NoMediaHook
    /\ IF "useMediaDevices" \in mounted
       THEN /\ DevicesInitOf({"useMediaDevices"})
            /\ options = [filter |-> None, deviceChangedEvent |-> None]
            /\ hasEnumerateDevices
       ELSE NoDevicesHook
    /\ IF "useTrackMuteState" \in mounted
       THEN MuteInit /\ muteTrack = "t1" /\ trackMuted = [t \in Tracks |-> FALSE]
       ELSE NoMuteHook
    /\ IF "useMediaTracks" \in mounted
       THEN /\ TracksInit
            /\ tracksMedia = "s1"
            /\ streamTracks = [s \in Streams |-> <<>>]
       ELSE NoTracksHook
    /\ IF "useMediaRecorder" \in mounted THEN RecorderInit ELSE NoRecorderHook

\* the operations and events of the mounted hooks, with at most
\* MaxAppCalls request() and getTracks() invocations each and at most
\* MaxAppCalls tracks in a stream
AppMedia ==
    "useMedia" \in mounted /\ MediaNext /\ Len(calls') <= MaxAppCalls

AppDevices ==
    "useMediaDevices" \in mounted /\ DevicesNext
        /\ Len(deviceCalls') <= MaxAppCalls

AppMute == "useTrackMuteState" \in mounted /\ MuteNext

AppTracks ==
    "useMediaTracks" \in mounted /\ TracksNext
        /\ arrays' <= MaxAppCalls
        /\ \A s \in Streams : Len(streamTracks'[s]) <= MaxAppCalls

AppRecorder == "useMediaRecorder" \in mounted /\ RecorderNext

AppNext == AppMedia \/ AppDevices \/ AppMute \/ AppTracks \/ AppRecorder

SpecApp == AppInit /\ [][AppNext]_vars

\* ------------------------------------------------ useMedia: claims ------

\* this step is a request() invocation
RequestStep == Len(calls') = Len(calls) + 1

\* request r was issued while no other request was outstanding, no later
\* request is in flight, and request() has not been invoked since
Exclusive(r) ==
    /\ reqs[r].solo
    /\ r = Len(reqs)
    /\ reqs[r].call = Len(calls)

\* no two requests are outstanding together
NoOverlap == \A r \in InFlight : reqs[r].solo /\ r = Len(reqs)

\* C1 (as stated): the hook enters the ready state or the error state only
\* from the loading state, and enters the loading state only as the direct
\* result of a request() call.
C1_Lifecycle ==
    [][ /\ (~IsReady /\ IsReady') => isLoading
        /\ (~IsError /\ IsError') => isLoading
        /\ (~isLoading /\ isLoading') => RequestStep ]_vars

\* C1 (amended): the hook enters the loading state only as the direct
\* result of a request() call; while requests do not overlap it enters the
\* ready state only from the loading state, and the error state only from
\* the loading state or directly by a request() call that fails the
\* availability check.
C1_LifecycleAmended ==
    [][ /\ (~IsReady /\ IsReady' /\ NoOverlap) => isLoading
        /\ (~IsError /\ IsError' /\ NoOverlap) =>
               (isLoading \/ (RequestStep /\ ~hasApi[type]))
        /\ (~isLoading /\ isLoading') => RequestStep ]_vars

\* a lone request has just made the hook ready, out of the loading state
C1_Witness ==
    \E r \in DOMAIN reqs :
        /\ reqs[r].solo /\ r = Len(reqs)
        /\ reqs[r].phase = "finalizing"
        /\ IsReady /\ isLoading

\* C2: every state returned by useMedia has exactly one of isLoading,
\* isError and isReady true, error non-null exactly when isError, and media
\* defined exactly when isReady.
C2_DeclaredState ==
    /\ Cardinality({f \in {"isLoading", "isError", "isReady"} : MediaState[f]}) = 1
    /\ (MediaState.error # Null) <=> MediaState.isError
    /\ (MediaState.media # Undefined) <=> MediaState.isReady

ReadyWith(s) ==
    MediaState = [isError |-> FALSE, isLoading |-> FALSE, isReady |-> TRUE,
                  error |-> Null, media |-> s]

ErrorWith(e) ==
    MediaState = [isError |-> TRUE, isLoading |-> FALSE, isReady |-> FALSE,
                  error |-> e, media |-> Undefined]

\* a lone request carries the settlement value v: its promise settled with
\* v, and request() has not been invoked since the request was made
LoneWith(v) ==
    \E r \in DOMAIN reqs : Exclusive(r) /\ reqs[r].value = v

\* the promise of a lone request has just settled with v: its first
\* reaction is queued and has not run yet
LoneSettled(v) ==
    \E r \in DOMAIN reqs :
        /\ Exclusive(r)
        /\ reqs[r].phase \in {"fulfilled", "rejected"}
        /\ reqs[r].value = v

\* C3: after a single request() with the API available and no other request
\* outstanding, a promise fulfilled with stream S leads to isReady = true,
\* media = S, error = null, isLoading = false, and the hook stays in that
\* state until the next request() call.
C3_ReadyAfterFulfil ==
    /\ [](\A r \in DOMAIN reqs :
            (Exclusive(r) /\ reqs[r].phase = "done" /\ reqs[r].value \in Streams)
                => ReadyWith(reqs[r].value))
    /\ \A s \in Streams :
            LoneSettled(s) ~> (ReadyWith(s) \/ ~LoneWith(s))

\* the lone request has run to its end with a stream
C3_Witness ==
    \E r \in DOMAIN reqs :
        Exclusive(r) /\ reqs[r].phase = "done" /\ reqs[r].value \in Streams

\* C4: when the promise of a request rejects with reason E (no other request
\* outstanding) the hook reaches isError = true, error = E, media =
\* undefined, isReady = false, isLoading = false.
C4_ErrorAfterReject ==
    /\ [](\A r \in DOMAIN reqs :
            (Exclusive(r) /\ reqs[r].phase = "done" /\ reqs[r].value \in Reasons)
                => ErrorWith(reqs[r].value))
    /\ \A e \in Reasons :
            LoneSettled(e) ~> (ErrorWith(e) \/ ~LoneWith(e))

\* the lone request has run to its end with a rejection
C4_Witness ==
    \E r \in DOMAIN reqs :
        Exclusive(r) /\ reqs[r].phase = "done" /\ reqs[r].value \in Reasons

\* C5: a request() where the capture API of the hook's type is missing sets
\* error to that API's 'is not available' Error, does not touch isLoading,
\* invokes no capture API and leaves media unchanged.
C5_Unavailable ==
    [][ (RequestStep /\ ~hasApi[type]) =>
            /\ type = "user" => error' = ErrNoGetUserMedia
            /\ type = "display" => error' = ErrNoGetDisplayMedia
            /\ isLoading' = isLoading
            /\ media' = media
            /\ reqs' = reqs ]_vars

\* the availability check failed while the hook held a stream
C5_Witness ==
    /\ error \in {ErrNoGetUserMedia, ErrNoGetDisplayMedia}
    /\ IsReady
    /\ ~hasApi[type]

\* C6: a request(args) of a 'user' hook invokes getUserMedia with exactly
\* args and a request(args) of a 'display' hook invokes getDisplayMedia with
\* exactly args, never the other API; every request() that passes the
\* availability check invokes the API exactly once.
C6_ApiChoice ==
    /\ \A r \in DOMAIN reqs :
          /\ reqs[r].call \in DOMAIN calls
          /\ reqs[r].args = calls[reqs[r].call].args
          /\ calls[reqs[r].call].type = "user" => reqs[r].api = "getUserMedia"
          /\ calls[reqs[r].call].type = "display" => reqs[r].api = "getDisplayMedia"
    /\ \A c \in DOMAIN calls :
          Cardinality({r \in DOMAIN reqs : reqs[r].call = c})
              = IF hasApi[calls[c].type] THEN 1 ELSE 0

\* both capture APIs have been invoked, with different arguments
C6_Witness ==
    \E r1, r2 \in DOMAIN reqs :
        /\ reqs[r1].api = "getUserMedia" /\ reqs[r2].api = "getDisplayMedia"
        /\ reqs[r1].args # reqs[r2].args

\* ----------------------------------------- useMediaDevices: claims ------

\* this step is a request() invocation on useMediaDevices, by origin
DeviceRequestStep(origin) ==
    /\ Len(deviceCalls') = Len(deviceCalls) + 1
    /\ deviceCalls'[Len(deviceCalls')] = origin

\* this step starts an enumeration: enumerateDevices is invoked
EnumerationStarts == Len(enums') = Len(enums) + 1

\* this step runs the reaction of a fulfilled enumeration
FulfilledReactionStep ==
    /\ deviceMicrotasks # <<>>
    /\ deviceMicrotasks' = Tail(deviceMicrotasks)
    /\ enums[Head(deviceMicrotasks)].outcome = "fulfilled"

\* C7: once the enumerateDevices promise of a request has settled and its
\* reaction has run, the hook is in a declared settled state (fulfilled:
\* isLoading false, isError false, isReady true, error null, devices
\* defined; rejected: isLoading false, isError true, isReady false, error
\* non-null, devices undefined), and isLoading is true only while an
\* enumeration is outstanding.
C7_SettledState ==
    /\ devicesIsLoading => EnumsInFlight # {}
    /\ \A r \in DOMAIN enums :
          (enums[r].solo /\ r = Len(enums) /\ enums[r].phase = "done") =>
              IF enums[r].outcome = "fulfilled"
              THEN /\ ~DeviceState.isLoading /\ ~DeviceState.isError
                   /\ DeviceState.isReady /\ DeviceState.error = Null
                   /\ DeviceState.devices # Undefined
              ELSE /\ ~DeviceState.isLoading /\ DeviceState.isError
                   /\ ~DeviceState.isReady /\ DeviceState.error # Null
                   /\ DeviceState.devices = Undefined

\* C8: with deviceChangedEvent on, every devicechange event that arrives
\* while no enumeration is pending causes a new enumerateDevices call.
C8_DeviceChangeRefreshes ==
    [][ (DeviceRequestStep("devicechange") /\ deviceChangedEvent
            /\ hasEnumerateDevices /\ EnumsInFlight = {})
        => EnumerationStarts ]_vars

\* C9: after a request has settled (fulfilled or rejected), a further
\* explicit request() call performs a new enumerateDevices call.
C9_RequestRefreshes ==
    [][ (DeviceRequestStep("request") /\ hasEnumerateDevices
            /\ enums # <<>> /\ EnumsInFlight = {})
        => EnumerationStarts ]_vars

\* C10: when an enumeration fulfils, its reaction makes isReady true with
\* devices defined, and once isReady is true it stays true until the next
\* request() starts an enumeration.
C10_ReadyStays ==
    [][ /\ FulfilledReactionStep => IsDevicesReady'
        /\ (IsDevicesReady /\ ~IsDevicesReady') => EnumerationStarts ]_vars

\* the indices of list whose element keep accepts
KeptIndices(list, keep) == {i \in DOMAIN list : list[i] \in keep}

\* result is list restricted to the elements keep accepts, in list's order:
\* it has one element per accepted index, taken at increasing indices
IsRestriction(result, list, keep) ==
    /\ Len(result) = Cardinality(KeptIndices(list, keep))
    /\ \E f \in [DOMAIN result -> KeptIndices(list, keep)] :
          /\ \A i, j \in DOMAIN result : i < j => f[i] < f[j]
          /\ \A i \in DOMAIN result : result[i] = list[f[i]]

\* the list the reaction at the head of the microtask queue was fulfilled with
HeadFulfilledList == enums[Head(deviceMicrotasks)].value

\* the devices cell as a sequence: empty while undefined, else the one list
DevicesCell == IF IsDevicesReady THEN <<devices>> ELSE <<>>

\* C11: the ready state's devices is the list enumerateDevices returned,
\* restricted to the elements options.filter accepts, in the original order
\* (every element when the filter is the default): devices takes a value
\* only in the reaction of a fulfilled enumeration, and the value it takes
\* there is that restriction of the promise's list.
C11_FilteredDevices ==
    [][ /\ FulfilledReactionStep =>
             /\ IsDevicesReady'
             /\ IsRestriction(devices', HeadFulfilledList, filter)
             /\ (filter = Devices => devices' = HeadFulfilledList)
        /\ (IsDevicesReady' /\ DevicesCell' # DevicesCell) =>
               FulfilledReactionStep ]_<<deviceMicrotasks, DevicesCell>>

\* a ready state behind a narrowing filter that let a device through
C11_Witness ==
    /\ IsDevicesReady
    /\ filter # Devices
    /\ devices # <<>>
    /\ \E r \in DOMAIN enums :
          enums[r].phase = "done" /\ enums[r].outcome = "fulfilled"

\* the devices whose kind the claim assigns to each kind-specific hook:
\* mic is the audioinput, speaker the audiooutput, cam the videoinput device
ClaimedDevices(h) ==
    CASE h = "useMediaAudioDevices"       -> {"mic", "speaker"}
      [] h = "useMediaAudioInputDevices"  -> {"mic"}
      [] h = "useMediaAudioOutputDevices" -> {"speaker"}
      [] h = "useMediaVideoDevices"       -> {"cam"}

\* the devices the caller's own filter accepts (all of them when absent)
CallerAccepts == IF options.filter = None THEN Devices ELSE options.filter[1]

\* the deviceChangedEvent the caller asked for (true when absent)
CallerDeviceChangedEvent ==
    IF options.deviceChangedEvent = None THEN TRUE ELSE options.deviceChangedEvent[1]

\* C12: under a kind-specific hook the ready devices list is the enumerated
\* list restricted to the devices of the hook's kind that also pass the
\* caller's filter (all of that kind when the caller gives none), so it
\* never holds a device of another kind; and useMediaDevices sees the
\* caller's deviceChangedEvent unchanged.
C12_KindDevices ==
    /\ [](hook \in KindHooks => deviceChangedEvent = CallerDeviceChangedEvent)
    /\ [][ /\ FulfilledReactionStep =>
                /\ IsDevicesReady'
                /\ IsRestriction(devices', HeadFulfilledList,
                                 ClaimedDevices(hook) \cap CallerAccepts)
                /\ \A i \in DOMAIN devices' : devices'[i] \in ClaimedDevices(hook)
           /\ (IsDevicesReady' /\ DevicesCell' # DevicesCell) =>
                  FulfilledReactionStep ]_<<deviceMicrotasks, DevicesCell>>

\* useMediaAudioInputDevices with a caller filter that accepts the camera
\* too, ready with the microphone alone
C12_Witness ==
    /\ hook = "useMediaAudioInputDevices"
    /\ options.filter = Some({"mic", "cam"})
    /\ IsDevicesReady
    /\ devices = <<"mic">>
    /\ \E r \in DOMAIN enums :
          enums[r].phase = "done" /\ enums[r].outcome = "fulfilled"

\* ------------------------------------- useTrackMuteState: claims ------

\* what the claim says the hook returns for the track of the current render
MuteClaimed == IF trackMuted[muteTrack] THEN "muted" ELSE "unmuted"

\* no re-render is scheduled and the effects of the last render have run
MuteSettled == ~muteDirty /\ ~muteEffectPending

\* this step is a mute or unmute event on the track the hook observes,
\* after the hook subscribed to it
ObservedTrackEvent ==
    /\ ~muteEffectPending
    /\ trackMuted'[muteTrack] # trackMuted[muteTrack]

\* C13: useTrackMuteState returns "muted" exactly when track.muted is true.
\* Every render returns the value of the current track's flag, also the
\* render with another track; a mute or unmute event on the observed track
\* notifies the subscriber, which schedules a render unless the rendered
\* value already agrees; once nothing is scheduled the returned value
\* agrees with the flag, and a value that disagrees is always replaced by
\* one that agrees.
C13_MuteState ==
    /\ [](MuteSettled => muteValue = MuteClaimed)
    /\ [][ /\ (muteValue' # muteValue \/ muteTrack' # muteTrack) =>
                muteValue' = MuteClaimed'
           /\ ObservedTrackEvent =>
                (muteDirty' \/ muteValue' = MuteClaimed') ]_muteVars
    /\ ((muteValue # MuteClaimed) ~> (muteValue = MuteClaimed))

\* the observed track was muted last, and the settled hook returns "muted"
C13_Witness ==
    /\ muteLastEvent = Some(<<muteTrack, "mute">>)
    /\ muteListeners = MuteSubscribe(muteTrack)
    /\ MuteSettled
    /\ muteValue = "muted"

\* ---------------------------------------- useMediaTracks: claims ------

\* C15: getSnapshot is referentially stable: a getSnapshot call that follows
\* another with no change to the observed track list in between returns the
\* identical array (the same identity, not only the same items).
C15_StableSnapshot ==
    [][ (snapshot # None /\ ~tracksChanged) => snapshot' = snapshot ]_tracksVars

\* getSnapshot ran twice on an unchanged stream that has tracks, so
\* getTracks() built two arrays, and the cached first one was returned
C15_Witness ==
    /\ snapshotRepeated
    /\ tracksMedia # Undefined
    /\ arrays >= 2
    /\ trackCache.items # <<>>
    /\ snapshot = Some(trackCache.ref)

\* ------------------------------------------- hook instances: claims ----

\* the state each hook returns, in a form two states can be compared in
DeviceReturned == [DeviceState EXCEPT !.devices = DevicesCell]
TracksReturned == snapshot
MuteReturned == muteValue

\* what changes in every step of useMediaDevices
DeviceStepView == <<deviceCalls, closureIsLoading, deviceMicrotasks>>

====
